---- MODULE Spec2Model ----
(***************************************************************************)
(* Job orchestration core of the lecture voice-to-notes backend            *)
(* (backend/main.py): the file-based job store (load_job / save_job), the   *)
(* submission gateway (upload_audio), the pipeline orchestrator             *)
(* (process_lecture) run as a background task per job, the lazily built     *)
(* service singletons, and the two read-only queries.                       *)
(***************************************************************************)
EXTENDS Naturals, Sequences, FiniteSets, TLC

(* ------------------------------ bounds --------------------------------- *)

\* Number of uploads (job identifiers) in a behaviour.
MaxJobs == 2

\* Number of I/O faults (open or write raising OSError) in a behaviour.
MaxFaults == 1

\* Longest prefix of a document that reaches the file before a write fails.
MaxPartial == 1

JobIds == 1..MaxJobs

(* ------------------------- JSON-serialisable values -------------------- *)

\* Python values stored in a job record: None, a str, or a dict/list result.
None == <<"null", "">>

Str(s) == <<"str", s>>

Obj(s) == <<"obj", s>>

\* uuid.uuid4() rendered as a string: a fresh identifier per upload.
uuid4(j) == Str(ToString(j))

\* A dict is a function from its keys to values; EmptyDict has no key.
EmptyDict == [k \in {} |-> None]

SetItem(d, k, v) == [x \in (DOMAIN d) \cup {k} |-> IF x = k THEN v ELSE d[x]]

Get(d, k) == IF k \in DOMAIN d THEN d[k] ELSE None

\* The order in which the program inserts the keys of a job record
\* (a dict keeps insertion order, which json.dump follows).
KeyOrder == <<"id", "filename", "status", "step", "error",
              "transcript", "cleaned_text", "summary">>

(* ------------------------------ JSON text ------------------------------ *)

\* A file is a sequence of tokens: "{", one token per "key": value, "}".
LBrace == <<"{", "", "", "">>

RBrace == <<"}", "", "", "">>

Pair(k, v) == <<"pair", k, v[1], v[2]>>

IsInKeys(d, k) == k \in DOMAIN d

\* json.dump(data, f, indent=2, ensure_ascii=False): the whole document.
json_dump(data) ==
    LET ks == SelectSeq(KeyOrder, LAMBDA k : IsInKeys(data, k))
    IN  <<LBrace>> \o [i \in 1..Len(ks) |-> Pair(ks[i], data[ks[i]])] \o <<RBrace>>

WellFormed(content) ==
    /\ Len(content) >= 2
    /\ content[1] = LBrace
    /\ content[Len(content)] = RBrace
    /\ \A i \in 2..(Len(content) - 1) : content[i][1] = "pair"

\* The dict a well-formed document denotes (a repeated key keeps its last value).
Parsed(content) ==
    LET idx  == 2..(Len(content) - 1)
        keys == {content[i][2] : i \in idx}
        last(k) == CHOOSE i \in idx : /\ content[i][2] = k
                                      /\ \A m \in (i + 1)..(Len(content) - 1) :
                                            content[m][2] # k
    IN  [k \in keys |-> <<content[last(k)][3], content[last(k)][4]>>]

\* json.load(f): the dict, or JSONDecodeError on a text that is no document.
json_load(content) ==
    IF WellFormed(content)
    THEN [kind |-> "ok", val |-> Parsed(content)]
    ELSE [kind |-> "raise", exc |-> "JSONDecodeError"]

(* ------------------------------- state --------------------------------- *)

VARIABLES
    files,    \* JOBS_DIR: per job id, whether <id>.json exists and its content
    pc,       \* per job: where its upload / background task stands
    job,      \* per job: the working copy (job_data, then process_lecture's job)
    exc,      \* per job: the exception that left upload_audio / process_lecture
    svc,      \* the module-level singletons: 0 is None, 1 an instance
    faults,   \* I/O faults so far
    lastStatus, \* history: per job, the status of the last record a reader could load
    arg,      \* the argument of a service method called on its own
    ret       \* what that call returned

vars == <<files, pc, job, exc, svc, faults, lastStatus, arg, ret>>

\* The variables of the job store and the orchestration.
store == <<files, pc, job, exc, svc, faults, lastStatus>>

\* No service method has been called on its own.
NoCall == [kind |-> "none"]

Kinds == {"asr", "nlp", "summarizer"}

NoFile == [exists |-> FALSE, content |-> <<>>]

InitStore ==
    /\ files = [j \in JobIds |-> NoFile]
    /\ pc = [j \in JobIds |-> "idle"]
    /\ job = [j \in JobIds |-> EmptyDict]
    /\ exc = [j \in JobIds |-> ""]
    /\ svc = [k \in Kinds |-> 0]
    /\ faults = 0
    /\ lastStatus = [j \in JobIds |-> ""]

Init ==
    /\ InitStore
    /\ arg = NoCall
    /\ ret = NoCall

(* ------------------------------ job store ------------------------------ *)

\* load_job(job_id): HTTP 404 when the file is absent, else json.load of it.
load_job(j) ==
    IF ~files[j].exists
    THEN [kind |-> "raise", exc |-> "HTTP404"]
    ELSE json_load(files[j].content)

\* The history variable follows the file of job j: it takes the status of the
\* record the step leaves in the file, when the step leaves one that loads.
Track(j) ==
    LET r == load_job(j)'
    IN  lastStatus' = [lastStatus EXCEPT ![j] =
                         IF r.kind = "ok" THEN Get(r.val, "status")[2] ELSE @]

\* Mutant: the file is opened without truncation (mode "a").
OpenW_NoTruncate(f) == [exists |-> TRUE, content |-> f.content]

\* open(path, "w"): creates the file or truncates it to nothing.
OpenW(f) == [exists |-> TRUE, content |-> <<>>]

\* json.dump into the open file, then close: the document replaces the content.
WriteAll(f, data) == [f EXCEPT !.content = f.content \o json_dump(data)]

\* Mutant: the write raises only after the whole document reached the file.
WritePart_Whole(f, data, n) == [f EXCEPT !.content = f.content \o json_dump(data)]

\* A write that raises after n tokens reached the file.
WritePart(f, data, n) == [f EXCEPT !.content = f.content \o SubSeq(json_dump(data), 1, n)]

(* --------------------------- control labels ---------------------------- *)

\* write<line> is the save_job call of that line with the file open and
\* truncated, about to dump and close.
WriteLabels == {"write107", "write115", "write120", "write142", "write168", "write177"}

\* The save_job calls inside process_lecture's try block (lines 109-169).
InTry == {"write115", "write120", "write142", "write168"}

\* The labels of a stage: its service being constructed, its call running.
NewOf == [asr |-> "new_asr", nlp |-> "new_nlp", summarizer |-> "new_summarizer"]

CallOf == [asr |-> "call_asr", nlp |-> "call_nlp", summarizer |-> "call_summarizer"]

KindAt == [new_asr |-> "asr", new_nlp |-> "nlp", new_summarizer |-> "summarizer"]

\* get_asr / get_nlp / get_summarizer up to the test "is None" (lines 57, 63,
\* 69): the service is constructed when the global holds None, used otherwise.
GetService(k) == IF svc[k] = 0 THEN NewOf[k] ELSE CallOf[k]

\* Where control goes when the save_job of that line returns: into the getter
\* of the next stage (lines 112, 121, 143), to line 119, or out of the function.
AfterWrite(wl) ==
    CASE wl = "write107" -> GetService("asr")
      [] wl = "write115" -> "line119"
      [] wl = "write120" -> GetService("nlp")
      [] wl = "write142" -> GetService("summarizer")
      [] wl = "write168" -> "returned"
      [] wl = "write177" -> "returned"

\* The failure a stage raises.
FailureOf == [asr |-> "TranscriptionFailure", nlp |-> "CleaningFailure",
              summarizer |-> "SummarizationFailure"]

StageFailures == {FailureOf[k] : k \in Kinds}

(* --------------------------- save_job, stepwise ------------------------ *)

Min(a, b) == IF a <= b THEN a ELSE b

\* The proper prefixes a failed write of the document can leave behind.
PartLens(data) == 0..Min(MaxPartial, Len(json_dump(data)) - 1)

\* An exception that leaves process_lecture (nothing catches it there).
Escape(j, jb, e) ==
    /\ pc' = [pc EXCEPT ![j] = "escaped"]
    /\ exc' = [exc EXCEPT ![j] = e]
    /\ job' = [job EXCEPT ![j] = jb]

\* The assignments of process_lecture to its working copy jb.
\* Lines 105-106.
Processing(jb) ==
    SetItem(SetItem(jb, "status", Str("processing")), "step", Str("Transcribing audio"))

\* Mutant: the assignment of line 113 is missing.
Transcribed_Dropped(jb) == jb

\* Line 113, with the result of transcribe.
Transcribed(jb) == SetItem(jb, "transcript", Obj("asr_result"))

\* Mutant: line 119 names the wrong step.
CleaningStep_Wrong(jb) == SetItem(jb, "step", Str("Generating summary"))

\* Line 119.
CleaningStep(jb) == SetItem(jb, "step", Str("Cleaning text"))

\* Mutant: the summary field is created, empty, before summarize is called.
Cleaned_WithPlaceholder(jb) ==
    SetItem(SetItem(SetItem(jb, "cleaned_text", Str("cleaned")),
                    "step", Str("Generating summary")),
            "summary", None)

\* Lines 123 and 141, with the result of clean_text.
Cleaned(jb) ==
    SetItem(SetItem(jb, "cleaned_text", Str("cleaned")), "step", Str("Generating summary"))

\* Mutant: line 167 is missing.
Summarized_NoStep(jb) ==
    SetItem(SetItem(jb, "summary", Obj("summary")), "status", Str("done"))

\* Lines 144 and 166-167, with the result of summarize.
Summarized(jb) ==
    SetItem(SetItem(SetItem(jb, "summary", Obj("summary")), "status", Str("done")),
            "step", Str("Complete"))

\* Mutant: line 176 is missing.
Handled_NoError(jb, e) == SetItem(jb, "status", Str("error"))

\* Mutant: line 175 is missing.
Handled_NoStatus(jb, e) == SetItem(jb, "error", Str(e))

\* The except clause of process_lecture, lines 175-176, on the working copy jb.
Handled(jb, e) == SetItem(SetItem(jb, "status", Str("error")), "error", Str(e))

\* Line 177 up to the open, after f faults: open(path, "w") truncates the file,
\* or raises OSError, which nothing catches.
HandlerOpen(j, jb, f) ==
    \/ /\ files' = [files EXCEPT ![j] = OpenW(@)]
       /\ job' = [job EXCEPT ![j] = jb]
       /\ pc' = [pc EXCEPT ![j] = "write177"]
       /\ faults' = f
       /\ UNCHANGED exc
    \/ /\ f < MaxFaults
       /\ faults' = f + 1
       /\ UNCHANGED files
       /\ Escape(j, jb, "OSError")

\* Mutant: the stage is called outside the try block.
Raise_Propagates(j, jb, e) ==
    /\ Escape(j, jb, e)
    /\ UNCHANGED <<files, faults>>

\* An exception e raised inside the try block with working copy jb: the handler
\* marks the record (lines 171-176) and calls save_job (line 177).
Raise(j, jb, e) == HandlerOpen(j, Handled(jb, e), faults)

\* save_job line 100 for the working copy jb: open(path, "w") truncates the file
\* and control reaches the dump (label wl); or it raises OSError and leaves the
\* file as it was, and the exception is handled inside the try block and
\* escapes outside it.
SaveOpen(j, jb, wl) ==
    \/ /\ files' = [files EXCEPT ![j] = OpenW(@)]
       /\ job' = [job EXCEPT ![j] = jb]
       /\ pc' = [pc EXCEPT ![j] = wl]
       /\ UNCHANGED <<exc, faults>>
    \/ /\ faults < MaxFaults
       /\ IF wl \in InTry
          THEN HandlerOpen(j, Handled(jb, "OSError"), faults + 1)
          ELSE /\ faults' = faults + 1
               /\ UNCHANGED files
               /\ Escape(j, jb, "OSError")

\* save_job line 101 and the end of the with block: dump, flush, close; an
\* OSError while writing leaves a proper prefix of the document in the file.
SaveWrite(j) ==
    /\ pc[j] \in WriteLabels
    /\ \/ /\ files' = [files EXCEPT ![j] = WriteAll(@, job[j])]
          /\ pc' = [pc EXCEPT ![j] = AfterWrite(pc[j])]
          /\ UNCHANGED <<job, exc, faults>>
       \/ /\ faults < MaxFaults
          /\ faults' = faults + 1
          /\ \E n \in PartLens(job[j]) :
                files' = [files EXCEPT ![j] = WritePart(@, job[j], n)]
          /\ IF pc[j] \in InTry
             THEN /\ job' = [job EXCEPT ![j] = Handled(@, "OSError")]
                  /\ pc' = [pc EXCEPT ![j] = "save177"]
                  /\ UNCHANGED exc
             ELSE Escape(j, job[j], "OSError")
    /\ Track(j)
    /\ UNCHANGED <<svc, arg, ret>>

\* Line 177 up to the open, when the handler was entered by a failed write.
SaveError(j) ==
    /\ pc[j] = "save177"
    /\ HandlerOpen(j, job[j], faults)
    /\ Track(j)
    /\ UNCHANGED <<svc, arg, ret>>

(* ----------------------------- upload_audio ---------------------------- *)

Filenames == {"", "lecture1.mp3"}

\* Mutant: the initial record is created as processing.
job_data_Processing(j, filename) ==
    [id |-> uuid4(j), filename |-> Str(filename), status |-> Str("processing"),
     step |-> Str("Queued"), error |-> None]

\* Lines 193-199: the initial record.
job_data(j, filename) ==
    [id |-> uuid4(j), filename |-> Str(filename), status |-> Str("pending"),
     step |-> Str("Queued"), error |-> None]

\* upload_audio after its await (lines 190-205). It is a coroutine with no
\* further await, so it runs on the event loop without any other request
\* handler in between: one step. A request without a filename is refused
\* (line 182); save_job either stores job_data and the task is scheduled
\* (pc queued), or raises, and no task is scheduled.
upload_audio(j, filename) ==
    /\ pc[j] = "idle"
    /\ \A i \in JobIds : i < j => pc[i] # "idle"
    /\ filename # ""
    /\ \/ /\ files' = [files EXCEPT ![j] = WriteAll(OpenW(@), job_data(j, filename))]
          /\ pc' = [pc EXCEPT ![j] = "queued"]
          /\ UNCHANGED <<exc, faults>>
       \/ /\ faults < MaxFaults
          /\ faults' = faults + 1
          /\ \/ UNCHANGED files
             \/ \E n \in PartLens(job_data(j, filename)) :
                  files' = [files EXCEPT ![j] =
                              WritePart(OpenW(@), job_data(j, filename), n)]
          /\ pc' = [pc EXCEPT ![j] = "upload_failed"]
          /\ exc' = [exc EXCEPT ![j] = "OSError"]
    /\ Track(j)
    /\ UNCHANGED <<job, svc, arg, ret>>

\* Lines 181-182: a request without a filename gets HTTP 400, nothing is stored.
upload_refused ==
    /\ "" \in Filenames
    /\ UNCHANGED vars

(* ---------------------------- process_lecture -------------------------- *)

\* Lines 104-107 up to the open, run by the background task once
\* upload_audio has returned.
ProcessStart(j) ==
    /\ pc[j] = "queued"
    /\ LET r == load_job(j)
       IN  IF r.kind = "raise"
           THEN Escape(j, job[j], r.exc) /\ UNCHANGED <<files, faults>>
           ELSE SaveOpen(j, Processing(r.val), "write107")
    /\ Track(j)
    /\ UNCHANGED <<svc, arg, ret>>

\* The construction and assignment of the singleton (lines 58, 64, 70); a
\* constructor that raises (a model that cannot be loaded) fails the stage.
NewService(j) ==
    /\ pc[j] \in {"new_asr", "new_nlp", "new_summarizer"}
    /\ LET k == KindAt[pc[j]]
       IN  \/ /\ svc' = [svc EXCEPT ![k] = 1]
              /\ pc' = [pc EXCEPT ![j] = CallOf[k]]
              /\ UNCHANGED <<files, job, exc, faults, lastStatus, arg, ret>>
           \/ /\ Raise(j, job[j], FailureOf[k])
              /\ Track(j)
              /\ UNCHANGED <<svc, arg, ret>>

\* Lines 112-115 up to the open: transcribe returns, the result is assigned
\* and save_job called; or transcribe raises.
Transcribe(j) ==
    /\ pc[j] = "call_asr"
    /\ \/ SaveOpen(j, Transcribed(job[j]), "write115")
       \/ Raise(j, job[j], FailureOf["asr"])
    /\ Track(j)
    /\ UNCHANGED <<svc, arg, ret>>

\* Lines 119-120 up to the open.
StepCleaning(j) ==
    /\ pc[j] = "line119"
    /\ SaveOpen(j, CleaningStep(job[j]), "write120")
    /\ Track(j)
    /\ UNCHANGED <<svc, arg, ret>>

\* Lines 122-123 and 141-142 up to the open: clean_text returns, its result is
\* assigned and the step renamed, with no save between the two; or clean_text
\* raises.
Clean(j) ==
    /\ pc[j] = "call_nlp"
    /\ \/ SaveOpen(j, Cleaned(job[j]), "write142")
       \/ Raise(j, job[j], FailureOf["nlp"])
    /\ Track(j)
    /\ UNCHANGED <<svc, arg, ret>>

\* Lines 143-144 and 166-168 up to the open: summarize returns, the result is
\* assigned, the record marked done; or summarize raises.
Summarize(j) ==
    /\ pc[j] = "call_summarizer"
    /\ \/ SaveOpen(j, Summarized(job[j]), "write168")
       \/ Raise(j, job[j], FailureOf["summarizer"])
    /\ Track(j)
    /\ UNCHANGED <<svc, arg, ret>>

(* ------------------------------- queries ------------------------------- *)

\* get_status (lines 207-210): what the request returns in the current state.
get_status(j) ==
    LET r == load_job(j)
    IN  IF r.kind = "raise" THEN r
        ELSE [kind |-> "ok",
              val |-> [status |-> Get(r.val, "status"), step |-> Get(r.val, "step"),
                       error |-> Get(r.val, "error")]]

\* Mutant: the test of line 215 is missing.
get_results_NoCheck(j) == load_job(j)

\* get_results (lines 212-217).
get_results(j) ==
    LET r == load_job(j)
    IN  IF r.kind = "raise" THEN r
        ELSE IF Get(r.val, "status") # Str("done")
             THEN [kind |-> "raise", exc |-> "HTTP400"]
             ELSE r

\* The two requests, for any job id, read the store and change nothing; what
\* each returns in a state is get_status / get_results there.
QueryStatus == UNCHANGED vars

QueryResults == UNCHANGED vars

(* ---------------------------- specification ---------------------------- *)

Next ==
    \/ upload_refused
    \/ QueryStatus
    \/ QueryResults
    \/ \E j \in JobIds :
        \/ \E fn \in Filenames : upload_audio(j, fn)
        \/ ProcessStart(j)
        \/ SaveWrite(j)
        \/ NewService(j)
        \/ Transcribe(j)
        \/ StepCleaning(j)
        \/ Clean(j)
        \/ Summarize(j)
        \/ SaveError(j)

Spec == Init /\ [][Next]_vars

\* The background task of job j: every step of process_lecture.
Run(j) ==
    \/ ProcessStart(j)
    \/ SaveWrite(j)
    \/ NewService(j)
    \/ Transcribe(j)
    \/ StepCleaning(j)
    \/ Clean(j)
    \/ Summarize(j)
    \/ SaveError(j)

\* The program when no open or write fails; each background task runs in a
\* thread of its own and a call that neither returns nor raises is excluded.
NextOK == Next /\ faults' = faults

LiveSpec ==
    /\ Init
    /\ [][NextOK]_vars
    /\ \A j \in JobIds : WF_vars(Run(j) /\ faults' = faults)

(* ------------------- the job store on arbitrary records ---------------- *)

TestKeys == {"status", "error"}

TestVals == {None, Str("done"), Obj("asr_result")}

\* Records with any of the keys, each with any of the values.
TestRecords == UNION {[K -> TestVals] : K \in SUBSET TestKeys}

\* save_job(j, r) up to the open (line 100), whatever the file holds.
StoreSave(j, r) ==
    /\ pc[j] \in {"idle", "saved", "loaded"}
    /\ files' = [files EXCEPT ![j] = OpenW(@)]
    /\ job' = [job EXCEPT ![j] = r]
    /\ pc' = [pc EXCEPT ![j] = "storing"]
    /\ UNCHANGED <<exc, svc, faults, lastStatus, arg, ret>>

\* save_job line 101: the dump.
StoreWrite(j) ==
    /\ pc[j] = "storing"
    /\ files' = [files EXCEPT ![j] = WriteAll(@, job[j])]
    /\ pc' = [pc EXCEPT ![j] = "saved"]
    /\ UNCHANGED <<job, exc, svc, faults, lastStatus, arg, ret>>

\* load_job(j) after a save: the caller's variable takes what it returns.
StoreLoad(j) ==
    /\ pc[j] = "saved"
    /\ LET r == load_job(j)
       IN  IF r.kind = "ok"
           THEN /\ job' = [job EXCEPT ![j] = r.val]
                /\ pc' = [pc EXCEPT ![j] = "loaded"]
                /\ UNCHANGED exc
           ELSE /\ exc' = [exc EXCEPT ![j] = r.exc]
                /\ pc' = [pc EXCEPT ![j] = "escaped"]
                /\ UNCHANGED job
    /\ UNCHANGED <<files, svc, faults, lastStatus, arg, ret>>

StoreNext ==
    \E j \in JobIds :
        \/ \E r \in TestRecords : StoreSave(j, r)
        \/ StoreWrite(j)
        \/ StoreLoad(j)

SpecStore == Init /\ [][StoreNext]_vars

(* --------------------- the service methods on their own ---------------- *)

\* A text is a sequence of tokens: a word (a maximal run of word characters,
\* in lower case as re.IGNORECASE compares it), a space or a full stop.

\* Longest text given to a service method.
MaxText == 5

\* The single-word alternatives of FILLER_PATTERN; "uh" and "uhh" stand for
\* uh+, "um" for um+.
FillerWords == {"uh", "uhh", "um", "basically", "actually", "like", "right",
                "okay", "so", "well"}

\* The alternatives of FILLER_PATTERN made of two words and one space.
FillerPairs == {<<"you", "know">>, <<"i", "mean">>, <<"kind", "of">>, <<"sort", "of">>}

\* FILLER_PATTERN.sub('', text): leftmost matches, never overlapping; each
\* alternative stands between word boundaries, that is, is made of whole tokens.
RECURSIVE FILLER_PATTERN_sub(_)
FILLER_PATTERN_sub(t) ==
    IF t = <<>> THEN <<>>
    ELSE IF Len(t) >= 3 /\ t[2] = " " /\ <<t[1], t[3]>> \in FillerPairs
         THEN FILLER_PATTERN_sub(SubSeq(t, 4, Len(t)))
    ELSE IF t[1] \in FillerWords
         THEN FILLER_PATTERN_sub(Tail(t))
    ELSE <<t[1]>> \o FILLER_PATTERN_sub(Tail(t))

\* re.sub(r' {2,}', ' ', text): every run of spaces becomes one space.
RECURSIVE CollapseSpaces(_)
CollapseSpaces(t) ==
    IF Len(t) < 2 THEN t
    ELSE IF t[1] = " " /\ t[2] = " " THEN CollapseSpaces(Tail(t))
    ELSE <<t[1]>> \o CollapseSpaces(Tail(t))

\* str.strip(): no space at either end.
RECURSIVE strip(_)
strip(t) ==
    IF t = <<>> THEN t
    ELSE IF t[1] = " " THEN strip(Tail(t))
    ELSE IF t[Len(t)] = " " THEN strip(SubSeq(t, 1, Len(t) - 1))
    ELSE t

\* NLPUtils.clean_text (lines 48-51).
clean_text(text) == strip(CollapseSpaces(FILLER_PATTERN_sub(text)))

\* Texts of at most n tokens over the alphabet A in which no two words are
\* adjacent (two adjacent words would be one word).
TextsOver(A, n) ==
    {t \in UNION {[1..m -> A] : m \in 0..n} :
        \A i \in 1..(Len(t) - 1) : t[i] \in {" ", "."} \/ t[i + 1] \in {" ", "."}}

CleanTokens == {"you", "know", "uh", "cat", " "}

CleanArgs == {[kind |-> "clean_text", text |-> t] : t \in TextsOver(CleanTokens, MaxText)}

\* nlp.clean_text(raw_text) called and returned.
CallCleanText ==
    /\ arg.kind = "clean_text"
    /\ ret.kind = "none"
    /\ ret' = [kind |-> "ok", val |-> clean_text(arg.text)]
    /\ UNCHANGED <<store, arg>>

\* Most sentences in a text given to segment_by_topic.
MaxSent == 4

\* TOPIC_SIMILARITY_THRESHOLD, in hundredths.
TOPIC_SIMILARITY_THRESHOLD == 40

\* Similarities the embedder may report for two adjacent sentences, in
\* hundredths: below, at and above the threshold.
Similarities == {39, 40, 41}

\* Whether position i of t starts the separator '. '.
IsSep(t, i) == i < Len(t) /\ t[i] = "." /\ t[i + 1] = " "

\* text.split('. '): the pieces between the separators, found left to right;
\* a text without separator is its only piece.
RECURSIVE split(_)
split(t) ==
    IF \E i \in 1..Len(t) : IsSep(t, i)
    THEN LET i == CHOOSE k \in 1..Len(t) :
                    IsSep(t, k) /\ \A m \in 1..(k - 1) : ~IsSep(t, m)
         IN  <<SubSeq(t, 1, i - 1)>> \o split(SubSeq(t, i + 2, Len(t)))
    ELSE <<t>>

\* Line 89: the stripped pieces that are not empty.
Sentences(text) ==
    LET pieces == split(text)
        kept == SelectSeq(pieces, LAMBDA x : strip(x) # <<>>)
    IN  [i \in 1..Len(kept) |-> strip(kept[i])]

\* " ".join(parts).
RECURSIVE join(_)
join(parts) ==
    IF parts = <<>> THEN <<>>
    ELSE IF Len(parts) = 1 THEN parts[1]
    ELSE parts[1] \o <<" ">> \o join(Tail(parts))

\* Mutant: a similarity equal to the threshold starts a new segment too.
TopicShift_Inclusive(similarity) == similarity <= TOPIC_SIMILARITY_THRESHOLD

\* Line 104.
TopicShift(similarity) == similarity < TOPIC_SIMILARITY_THRESHOLD

\* Lines 98-112: the loop from index i (the i-th sentence, counted from 1) with
\* the segments closed so far and the current segment; sim[i - 1] is the
\* similarity of sentences i - 1 and i.
RECURSIVE SegmentLoop(_, _, _, _, _)
SegmentLoop(sentences, sim, i, segments, current_segment) ==
    IF i > Len(sentences)
    THEN Append(segments, join(current_segment))
    ELSE IF TopicShift(sim[i - 1])
         THEN SegmentLoop(sentences, sim, i + 1,
                          Append(segments, join(current_segment)), <<sentences[i]>>)
         ELSE SegmentLoop(sentences, sim, i + 1,
                          segments, Append(current_segment, sentences[i]))

\* f"Topic {n}".
Title(n) == <<"Topic", n>>

\* NLPUtils.segment_by_topic (lines 89-118); sim holds the cosine similarities
\* the embedder yields for the adjacent sentences.
segment_by_topic(text, sim) ==
    LET sentences == Sentences(text)
    IN  IF sentences = <<>>
        THEN <<[title |-> Title(1), content |-> text]>>
        ELSE LET segments == SegmentLoop(sentences, sim, 2, <<>>, <<sentences[1]>>)
             IN  [i \in 1..Len(segments) |-> [title |-> Title(i), content |-> segments[i]]]

\* The text of the sentences ss, each a word, separated by '. '.
RECURSIVE Lecture(_)
Lecture(ss) ==
    IF ss = <<>> THEN <<>>
    ELSE IF Len(ss) = 1 THEN <<ss[1]>>
    ELSE <<ss[1], ".", " ">> \o Lecture(Tail(ss))

SegmentTokens == {"a", ".", " "}

\* Texts given to segment_by_topic: any short text, and the lectures of up to
\* MaxSent one-word sentences.
SegmentTexts ==
    TextsOver(SegmentTokens, MaxText)
      \cup {Lecture(ss) : ss \in UNION {[1..n -> {"a", "b"}] : n \in 1..MaxSent}}

\* A call: a text and one similarity for each pair of adjacent sentences.
SegmentArgs ==
    UNION {{[kind |-> "segment_by_topic", text |-> t, sim |-> f] :
               f \in [1..(Len(Sentences(t)) - 1) -> Similarities]} :
           t \in SegmentTexts}

\* nlp.segment_by_topic(cleaned) called and returned.
CallSegmentByTopic ==
    /\ arg.kind = "segment_by_topic"
    /\ ret.kind = "none"
    /\ ret' = [kind |-> "ok", val |-> segment_by_topic(arg.text, arg.sim)]
    /\ UNCHANGED <<store, arg>>

\* Most lines in a text the generator returns.
MaxLines == 6

\* DIFFICULTY_LABELS (quiz_gen.py line 18).
DIFFICULTY_LABELS == <<"Easy", "Medium", "Hard">>

\* QuizService._assign_difficulty (lines 42-44); a list index counts from 0.
_assign_difficulty(index) == DIFFICULTY_LABELS[(index % Len(DIFFICULTY_LABELS)) + 1]

\* Lines 69 and 83: mcq_lines[:5], sa_lines[:3].
McqLimit == 5

ShortAnswerLimit == 3

\* Lines 66 and 80: the lines of the generated text that are not blank; a
\* line of the model is blank ("") or a question.
NonBlank(lines) == SelectSeq(lines, LAMBDA l : l # "")

\* QuizService.generate_quiz (lines 58-93) for the two texts the generator
\* returns, each a sequence of lines; i counts from 1 where enumerate counts
\* from 0.
generate_quiz(mcq_raw, sa_raw) ==
    LET mcq_lines == NonBlank(mcq_raw)
        sa_lines == NonBlank(sa_raw)
    IN  [mcqs |-> [i \in 1..Min(McqLimit, Len(mcq_lines)) |->
                     [question |-> mcq_lines[i],
                      difficulty |-> _assign_difficulty(i - 1)]],
         short_answers |-> [i \in 1..Min(ShortAnswerLimit, Len(sa_lines)) |->
                     [question |-> sa_lines[i],
                      difficulty |-> _assign_difficulty((i - 1) + 1)]]]

\* Generated texts: one question per line, with or without a blank line
\* first; the longest has more questions than either limit.
Generated ==
    {p \o [i \in 1..n |-> "Q" \o ToString(i)] :
        p \in {<<>>, <<"">>}, n \in 0..MaxLines}

QuizArgs ==
    {[kind |-> "generate_quiz", mcq_raw |-> m, sa_raw |-> a] :
        m \in Generated, a \in Generated}

\* quiz_svc.generate_quiz(cleaned) called and returned.
CallGenerateQuiz ==
    /\ arg.kind = "generate_quiz"
    /\ ret.kind = "none"
    /\ ret' = [kind |-> "ok", val |-> generate_quiz(arg.mcq_raw, arg.sa_raw)]
    /\ UNCHANGED <<store, arg>>

\* The service methods called on their own, on any argument.
InitServices ==
    /\ InitStore
    /\ arg \in CleanArgs \cup SegmentArgs \cup QuizArgs
    /\ ret = NoCall

NextServices ==
    \/ CallCleanText
    \/ CallSegmentByTopic
    \/ CallGenerateQuiz

SpecServices == InitServices /\ [][NextServices]_vars

(* ------------------------------ properties ----------------------------- *)

\* The record a reader finds for job j, when the file loads.
Readable(j) == load_job(j).kind = "ok"

Record(j) == load_job(j).val

Has(j, k) == k \in DOMAIN Record(j)

StatusOf(j) == Get(Record(j), "status")

\* The stage whose failure the handler recorded in the working copy of job j.
FailedStage(j, k) == "error" \in DOMAIN job[j] /\ job[j]["error"] = Str(FailureOf[k])

\* The output fields, in the order of their stages.
OutputOf == [asr |-> "transcript", nlp |-> "cleaned_text", summarizer |-> "summary"]

Before == [asr |-> {}, nlp |-> {"asr"}, summarizer |-> {"asr", "nlp"}]

\* C1: the status a reader can load only ever moves pending -> processing,
\* processing -> done or processing -> error (from nothing to pending at the
\* upload), and once the stored record is done or error no step changes the
\* file of that job, failed saves included.
StatusMoves == {<<"", "pending">>, <<"pending", "processing">>,
                <<"processing", "done">>, <<"processing", "error">>}

C1_StatusMonotonic ==
    [][\A j \in JobIds :
          /\ lastStatus'[j] # lastStatus[j] => <<lastStatus[j], lastStatus'[j]>> \in StatusMoves
          /\ lastStatus[j] \in {"done", "error"} => files'[j] = files[j]]_vars

\* A record that failed after the save of the done record itself failed: it is
\* stored as error with all three outputs.
C1_Witness ==
    \E j \in JobIds :
        /\ Readable(j) /\ StatusOf(j) = Str("error")
        /\ Has(j, "summary")
        /\ Get(Record(j), "step") = Str("Complete")

\* C2: when process_lecture has returned after stage k raised, the stored record
\* has status error, an error that is not null, the output of every stage
\* before k, and no output field of stage k or of a later stage.
C2_FailureKeepsEarlierOutputs ==
    \A j \in JobIds : \A k \in Kinds :
        (pc[j] = "returned" /\ FailedStage(j, k)) =>
            LET r == load_job(j)
            IN  /\ r.kind = "ok"
                /\ Get(r.val, "status") = Str("error")
                /\ Get(r.val, "error") # None
                /\ \A m \in Kinds : OutputOf[m] \in DOMAIN r.val <=> m \in Before[k]

C2_Witness ==
    \E j \in JobIds :
        /\ pc[j] = "returned" /\ FailedStage(j, "summarizer")
        /\ Has(j, "transcript") /\ Has(j, "cleaned_text") /\ ~Has(j, "summary")

\* C3: a stored record with status done has step "Complete" and the three
\* outputs transcript, cleaned_text and summary.
C3_DoneIsComplete ==
    \A j \in JobIds :
        LET r == load_job(j)
        IN  (r.kind = "ok" /\ Get(r.val, "status") = Str("done")) =>
                /\ Get(r.val, "step") = Str("Complete")
                /\ \A m \in Kinds : OutputOf[m] \in DOMAIN r.val

C3_Witness == \E j \in JobIds : Readable(j) /\ StatusOf(j) = Str("done")

\* C4: in every stored record the error is not null exactly when the status is
\* error.
C4_ErrorIffStatusError ==
    \A j \in JobIds :
        LET r == load_job(j)
        IN  r.kind = "ok" =>
                (Get(r.val, "error") # None <=> Get(r.val, "status") = Str("error"))

C4_Witness ==
    \E j \in JobIds :
        /\ Readable(j) /\ StatusOf(j) = Str("error")
        /\ Get(Record(j), "error") = Str("OSError")

\* C5: a results query fails with HTTP 400 whenever the stored status is not
\* done, and returns the whole stored record when it is done; the outputs of a
\* record that failed are never returned.
C5_ResultsOnlyWhenDone ==
    \A j \in JobIds :
        LET r == load_job(j)
        IN  r.kind = "ok" =>
                IF Get(r.val, "status") = Str("done")
                THEN get_results(j) = [kind |-> "ok", val |-> r.val]
                ELSE get_results(j) = [kind |-> "raise", exc |-> "HTTP400"]

C5_Witness ==
    \E i, j \in JobIds :
        /\ Readable(i) /\ StatusOf(i) = Str("error") /\ Has(i, "transcript")
        /\ Readable(j) /\ StatusOf(j) = Str("done")

\* C6: between the return of upload_audio and the start of process_lecture a
\* status query returns pending, "Queued" and a null error, and the first load
\* of process_lecture finds the record: no HTTP 404 and no decode error ever
\* leaves process_lecture.
C6_PendingBeforeStart ==
    \A j \in JobIds :
        /\ pc[j] = "queued" =>
              get_status(j) = [kind |-> "ok",
                               val |-> [status |-> Str("pending"), step |-> Str("Queued"),
                                        error |-> None]]
        /\ exc[j] \notin {"HTTP404", "JSONDecodeError"}

C6_Witness ==
    \E i, j \in JobIds : pc[i] = "queued" /\ pc[j] = "call_asr"

\* C7 as stated: whenever the stored record has a transcript and no
\* cleaned_text, a status query returns processing and "Cleaning text".
C7_Original ==
    \A j \in JobIds :
        (Readable(j) /\ Has(j, "transcript") /\ ~Has(j, "cleaned_text")) =>
            /\ get_status(j).val.status = Str("processing")
            /\ get_status(j).val.step = Str("Cleaning text")

\* C7 as amended: whenever the stored record has a transcript, no cleaned_text
\* and a status other than error, a status query returns processing, a null
\* error and the step "Transcribing audio" or "Cleaning text"; it is
\* "Cleaning text" once the save of line 120 has returned.
C7_StepAfterTranscription ==
    \A j \in JobIds :
        LET r == load_job(j)
            q == get_status(j)
        IN  (/\ r.kind = "ok"
             /\ "transcript" \in DOMAIN r.val
             /\ "cleaned_text" \notin DOMAIN r.val
             /\ Get(r.val, "status") # Str("error")) =>
                /\ q.val.status = Str("processing")
                /\ q.val.error = None
                /\ q.val.step \in {Str("Transcribing audio"), Str("Cleaning text")}
                /\ pc[j] \in {"new_nlp", "call_nlp"} => q.val.step = Str("Cleaning text")

C7_Witness ==
    \E j \in JobIds :
        /\ pc[j] = "line119" /\ Readable(j) /\ Has(j, "transcript")
        /\ get_status(j).val.step = Str("Transcribing audio")

\* C8: a failure raised by a stage never leaves process_lecture, and once the
\* handler has taken it the stored record reaches status error.
StageRaised(j) == pc[j] = "write177" /\ \E k \in Kinds : FailedStage(j, k)

C8_StageFailureContained ==
    \A j \in JobIds :
        /\ [](exc[j] \notin StageFailures)
        /\ StageRaised(j) ~> (Readable(j) /\ StatusOf(j) = Str("error") /\ pc[j] = "returned")

C8_Witness ==
    \E j \in JobIds :
        /\ pc[j] = "returned" /\ FailedStage(j, "asr")
        /\ Readable(j) /\ StatusOf(j) = Str("error")

\* C9: when no save fails and every call returns or raises, every job whose
\* upload returned eventually has a stored status of done or error, whatever
\* the other jobs do.
C9_EveryJobEnds ==
    \A j \in JobIds :
        (pc[j] = "queued") ~> (Readable(j) /\ StatusOf(j) \in {Str("done"), Str("error")})

C9_Witness ==
    \E i, j \in JobIds :
        /\ Readable(i) /\ StatusOf(i) = Str("done")
        /\ Readable(j) /\ StatusOf(j) = Str("error")

\* C10: after save_job(j, r) has returned the file holds exactly the document
\* of r, whatever it held before (so a second save of r changes nothing and no
\* field of an earlier record survives), and load_job(j) returns a record equal
\* to r in every field.
C10_SaveLoadRoundTrip ==
    /\ [](\A j \in JobIds :
            pc[j] = "saved" =>
                /\ files[j].content = json_dump(job[j])
                /\ load_job(j) = [kind |-> "ok", val |-> job[j]])
    /\ [][\A j \in JobIds : (pc[j] = "saved" /\ pc'[j] = "loaded") => job'[j] = job[j]]_vars

C10_Witness ==
    \E i, j \in JobIds :
        /\ pc[i] = "loaded" /\ job[i] = [status |-> Obj("asr_result"), error |-> None]
        /\ pc[j] = "saved" /\ job[j] = EmptyDict

\* C13 as stated: every getter constructs its service once per process, also
\* when several background tasks call it before the first construction has
\* finished: no two tasks are ever inside the constructor of the same service,
\* and no task is inside it once the global holds an instance.
C13_Original ==
    \A k \in Kinds :
        /\ Cardinality({j \in JobIds : pc[j] = NewOf[k]}) <= 1
        /\ svc[k] = 1 => \A j \in JobIds : pc[j] # NewOf[k]

\* The step a stage runs under, and the control points at which the first
\* save_job after the stage's assignment has just returned.
StepOf == [asr |-> "Transcribing audio", nlp |-> "Cleaning text",
           summarizer |-> "Generating summary"]

SavedAfter == [asr |-> {"line119"}, nlp |-> {"new_summarizer", "call_summarizer"},
               summarizer |-> {"returned"}]

\* C14 as stated: the record is persisted right after each stage completes,
\* before any other field changes: when the first save that follows a stage has
\* returned, the stored record has the stage's output and its step still names
\* that stage.
C14_Original ==
    \A j \in JobIds : \A m \in Kinds :
        LET r == load_job(j)
        IN  (/\ pc[j] \in SavedAfter[m]
             /\ r.kind = "ok"
             /\ OutputOf[m] \in DOMAIN r.val
             /\ Get(r.val, "status") # Str("error")) =>
                Get(r.val, "step") = Str(StepOf[m])

\* C15: while a stage of job j is being constructed or is running, the stored
\* record loads and has the output of every earlier stage and of no later one,
\* so the stages run in the order transcription, cleaning, summarization, each
\* after the output of the one before it was persisted.
C15_StagesInOrder ==
    \A j \in JobIds : \A k \in Kinds :
        pc[j] \in {NewOf[k], CallOf[k]} =>
            LET r == load_job(j)
            IN  /\ r.kind = "ok"
                /\ \A m \in Kinds : OutputOf[m] \in DOMAIN r.val <=> m \in Before[k]
                /\ Get(r.val, "status") = Str("processing")

C15_Witness ==
    \E i, j \in JobIds :
        /\ pc[i] = "call_summarizer" /\ Has(i, "transcript") /\ Has(i, "cleaned_text")
        /\ pc[j] = "call_nlp" /\ Has(j, "transcript")

\* C18 as stated: a load of a job that has been created never fails: whatever
\* the background task of the job is doing, the file holds a whole record.
C18_Original ==
    \A j \in JobIds :
        pc[j] \notin {"idle", "upload_failed"} => load_job(j).kind = "ok"

\* C11 as stated: clean_text is idempotent: cleaning the result of clean_text
\* returns it unchanged, so the result holds no filler and no run of spaces.
C11_Original ==
    ret.kind = "ok" /\ arg.kind = "clean_text" => clean_text(ret.val) = ret.val

\* C12 as stated: for a text of no sentence or one sentence, segment_by_topic
\* returns exactly one segment, titled "Topic 1", whose content is the text
\* without the spaces at its ends.
C12_Original ==
    (ret.kind = "ok" /\ arg.kind = "segment_by_topic" /\ Len(Sentences(arg.text)) <= 1) =>
        ret.val = <<[title |-> Title(1), content |-> strip(arg.text)]>>

\* C17 as stated: in both lists of generate_quiz the item at index i (from 0)
\* has the difficulty i mod 3 of Easy, Medium, Hard.
C17_Original ==
    (ret.kind = "ok" /\ arg.kind = "generate_quiz") =>
        /\ \A i \in 1..Len(ret.val.mcqs) :
              ret.val.mcqs[i].difficulty = DIFFICULTY_LABELS[((i - 1) % 3) + 1]
        /\ \A i \in 1..Len(ret.val.short_answers) :
              ret.val.short_answers[i].difficulty = DIFFICULTY_LABELS[((i - 1) % 3) + 1]

\* The pairs of adjacent sentences (i, i + 1) whose similarity is below the
\* threshold, and the sentences that start a segment.
Below(sim, n) == {i \in 1..(n - 1) : sim[i] < TOPIC_SIMILARITY_THRESHOLD}

Starts(sim, n) == {1} \cup {i + 1 : i \in Below(sim, n)}

\* The first sentence of the k-th segment, and its last one.
StartOf(sim, n, k) ==
    CHOOSE x \in Starts(sim, n) : Cardinality({y \in Starts(sim, n) : y < x}) = k - 1

EndOf(sim, n, k) ==
    IF k = Cardinality(Starts(sim, n)) THEN n ELSE StartOf(sim, n, k + 1) - 1

\* C16: for a text of n >= 1 sentences and any similarities, segment_by_topic
\* returns 1 + (number of adjacent pairs below 0.40) segments, titled "Topic 1"
\* to "Topic m" in order; a segment ends exactly before a sentence whose
\* similarity to the one before it is below 0.40, so that the k-th segment is
\* the k-th run of sentences, and the segments together are the sentences of
\* the text, in order, none lost and none twice.
C16_SegmentsFollowThreshold ==
    (ret.kind = "ok" /\ arg.kind = "segment_by_topic" /\ Sentences(arg.text) # <<>>) =>
        LET ss == Sentences(arg.text)
            n == Len(ss)
            out == ret.val
        IN  /\ Len(out) = 1 + Cardinality(Below(arg.sim, n))
            /\ \A k \in 1..Len(out) :
                  /\ out[k].title = Title(k)
                  /\ out[k].content =
                        join(SubSeq(ss, StartOf(arg.sim, n, k), EndOf(arg.sim, n, k)))
            /\ join([k \in 1..Len(out) |-> out[k].content]) = join(ss)

\* Three sentences or more, one pair exactly at the threshold (kept together)
\* and one below it (split).
C16_Witness ==
    /\ ret.kind = "ok" /\ arg.kind = "segment_by_topic"
    /\ Len(Sentences(arg.text)) >= 3
    /\ \E i, k \in DOMAIN arg.sim : arg.sim[i] = 40 /\ arg.sim[k] = 39
    /\ Len(ret.val) = 2

====
